---- MODULE Spec2Model ----
(***************************************************************************)
(* A model of FileSystemLibrary (src/src/FileSystem.h, FileSystem.cpp),    *)
(* POSIX build (WIN undefined, DIR_SEP "/").                               *)
(*                                                                         *)
(* A std::string is a sequence of one-character strings.  A                *)
(* DataContainer<string> is a sequence of such sequences; an iterator is   *)
(* the 1-based index of the element it refers to, end() is Len + 1 and     *)
(* the position before begin() is 0.  A step whose behaviour the C++       *)
(* standard leaves undefined (an erase or a read outside the container)    *)
(* ends the pure computation with status "oob"; the calling action then    *)
(* chooses among the outcomes a build can produce.                         *)
(***************************************************************************)
EXTENDS Integers, Sequences, FiniteSets, TLC

VARIABLES
    op,          \* the library function the program calls
    pc,          \* the program's position
    order,       \* the build's evaluation order of call arguments
    path,        \* the argument of getCleanPath and of createPath
    path1,       \* getRelativePath: from
    path2,       \* getRelativePath: to
    file1,       \* getRelativePath: what isFile(path1) answers
    ret,         \* the string a call returned
    status,      \* how the call ended
    ret2,        \* getCleanPath: the result of the call on ret
    status2,     \* getCleanPath: how that call ended
    addr,        \* the argument of isRemoteAddress
    bret,        \* the boolean a call returned
    fs_dirs,     \* the directories of the file system
    fs_files,    \* its entries that are not directories
    fs_dirs0,    \* its directories before the call of createPath
    fail_path,   \* createPath's out-parameter
    open_dirs,   \* the DIR handles open
    open_files,  \* the FILE handles open
    entries,     \* what getDirectoryContents returned
    copied,      \* the bytes copyFile wrote
    calls        \* the calls made so far

pathVars == <<order, path1, path2, file1, ret, status, ret2, status2>>

remoteVars == <<addr>>

createVars == <<fs_dirs, fs_files, fs_dirs0, fail_path>>

handleVars == <<open_dirs, open_files, entries, copied, calls>>

vars == <<op, pc, path, bret, pathVars, remoteVars, createVars, handleVars>>

(***************************************************************************)
(* Bounds of the model.                                                    *)
(***************************************************************************)
MaxSegs == 4

MaxRelSegs == 4

MaxGarbageSegs == 2

MaxTail == 4

MaxCreateSegs == 4

MaxChain == 2

MaxCalls == 3

MaxEntries == 2

(***************************************************************************)
(* Characters and strings.                                                 *)
(***************************************************************************)
DIR_SEP == <<"/">>

Dot == <<".">>

DotDot == <<".", ".">>

NoString == <<"<none>">>

\* The segments paths are built from: empty, ".", "..", and two names.
Tokens == {<<>>, Dot, DotDot, <<"a">>, <<"b">>}

SeqsUpTo(S, n) == UNION {[1..k -> S] : k \in 0..n}

RECURSIVE JoinFrom(_, _)
JoinFrom(segs, i) ==
    IF i > Len(segs) THEN <<>>
    ELSE IF i = Len(segs) THEN segs[i]
    ELSE segs[i] \o DIR_SEP \o JoinFrom(segs, i + 1)

\* The string whose pieces between separators are segs.
Join(segs) == JoinFrom(segs, 1)

\* Every string with at most MaxSegs pieces over Tokens (absolute or not).
Paths == {Join(segs) : segs \in SeqsUpTo(Tokens, MaxSegs)}

Back(s) == s[Len(s)]

\* Removes the elements at positions first .. last-1 (vector::erase).
Erase(dirs, first, last) ==
    SubSeq(dirs, 1, first - 1) \o SubSeq(dirs, last, Len(dirs))

(***************************************************************************)
(* String::split of the StringLibrary the header includes: the substrings  *)
(* between separators, empty ones kept; the empty string has no segment.   *)
(***************************************************************************)
RECURSIVE SplitFrom(_, _, _)
SplitFrom(s, i, cur) ==
    IF i > Len(s) THEN <<cur>>
    ELSE IF <<s[i]>> = DIR_SEP THEN <<cur>> \o SplitFrom(s, i + 1, <<>>)
    ELSE SplitFrom(s, i + 1, Append(cur, s[i]))

split(s) == IF s = <<>> THEN <<>> ELSE SplitFrom(s, 1, <<>>)

(***************************************************************************)
(* FileSystem::isAbsolutePath, POSIX branch.                               *)
(***************************************************************************)
isAbsolutePath(p) == p # <<>> /\ <<p[1]>> = DIR_SEP

(***************************************************************************)
(* FileSystem::getCleanPath.                                               *)
(***************************************************************************)
\* The two orders in which a build may evaluate the arguments of
\* dirs.erase(itr--, itr--+1): right to left (RL) or left to right (LR).
ArgOrders == {"RL", "LR"}

\* The arguments of the erase call and the iterator left behind, for itr = i.
EraseArgs(i, ord) ==
    IF ord = "RL"
    THEN [first |-> i - 1, last |-> i + 1, itr |-> i - 2]
    ELSE [first |-> i, last |-> i, itr |-> i - 2]

\* The loop of lines 40-44 from the state (dirs, itr); seen holds the loop
\* states already passed, so that a repeated state is reported as "hang".
RECURSIVE CleanLoop(_, _, _, _)
CleanLoop(dirs, itr, ord, seen) ==
    IF itr = Len(dirs) + 1 THEN [status |-> "ok", dirs |-> dirs]
    ELSE IF itr < 1 \/ itr > Len(dirs) + 1 THEN [status |-> "oob", dirs |-> dirs]
    ELSE IF <<dirs, itr>> \in seen THEN [status |-> "hang", dirs |-> dirs]
    ELSE LET d == dirs[itr]
             seen2 == seen \cup {<<dirs, itr>>}
         IN  IF d = <<>> \/ d = Dot
             THEN CleanLoop(Erase(dirs, itr, itr + 1), (itr - 1) + 1, ord, seen2)
             ELSE IF d = DotDot
             THEN LET a == EraseArgs(itr, ord)
                  IN  IF a.first < 1 \/ a.last > Len(dirs) + 1
                      THEN [status |-> "oob", dirs |-> dirs]
                      ELSE CleanLoop(Erase(dirs, a.first, a.last),
                                     a.itr + 1, ord, seen2)
             ELSE CleanLoop(dirs, itr + 1, ord, seen2)

\* Lines 50-54: the separator alone, or every segment behind a separator.
RECURSIVE AppendDirs(_, _)
AppendDirs(dirs, i) ==
    IF i > Len(dirs) THEN <<>>
    ELSE DIR_SEP \o dirs[i] \o AppendDirs(dirs, i + 1)

Rejoin(dirs) == IF dirs = <<>> THEN DIR_SEP ELSE AppendDirs(dirs, 1)

getCleanPath(p, ord) ==
    IF ~isAbsolutePath(p) THEN [status |-> "ok", path |-> p]
    ELSE LET target_is_directory == <<Back(p)>> = DIR_SEP
             lp == CleanLoop(split(p), 1, ord, {})
             joined == Rejoin(lp.dirs)
         IN  IF lp.status # "ok" THEN [status |-> lp.status, path |-> NoString]
             ELSE [status |-> "ok",
                   path |-> IF target_is_directory THEN joined \o DIR_SEP
                            ELSE joined]

(***************************************************************************)
(* FileSystem::getRelativePath.                                            *)
(***************************************************************************)
\* Lines 84-88: the reverse walk from the last element down to the first,
\* erasing each empty segment; k is the position itr.base() refers to.
RECURSIVE EraseEmptyRev(_, _)
EraseEmptyRev(dirs, k) ==
    IF k < 1 THEN dirs
    ELSE IF dirs[k] = <<>> THEN EraseEmptyRev(Erase(dirs, k, k + 1), k - 1)
    ELSE EraseEmptyRev(dirs, k - 1)

pop_back(dirs) == SubSeq(dirs, 1, Len(dirs) - 1)

\* Lines 111-114: the inner loop from i (0-based) to dirs_path1.size(); a read
\* of dirs_path2[i] at or beyond its size is outside the container and
\* yields the segment g.
RECURSIVE InnerLoop(_, _, _, _)
InnerLoop(dirs_path1, dirs_path2, i, g) ==
    IF i = Len(dirs_path1) THEN [oob |-> FALSE, path |-> <<>>]
    ELSE LET rest == InnerLoop(dirs_path1, dirs_path2, i + 1, g)
             seg == IF i < Len(dirs_path2) THEN dirs_path2[i + 1] ELSE g
         IN  [oob |-> rest.oob \/ i >= Len(dirs_path2),
              path |-> seg \o DIR_SEP \o rest.path]

\* Lines 106-117: the loop of the branch dirs_path1.size() >= dirs_path2.size().
RECURSIVE ClimbLoop(_, _, _, _)
ClimbLoop(dirs_path1, dirs_path2, i, g) ==
    IF i = Len(dirs_path1) THEN [oob |-> FALSE, path |-> <<>>]
    ELSE IF Len(dirs_path2) > i /\ dirs_path1[i + 1] = dirs_path2[i + 1]
    THEN ClimbLoop(dirs_path1, dirs_path2, i + 1, g)
    ELSE LET inner == InnerLoop(dirs_path1, dirs_path2, i, g)
         IN  [oob |-> inner.oob, path |-> DotDot \o DIR_SEP \o inner.path]

\* Lines 119-122: the loop of the other branch.
RECURSIVE DescendLoop(_, _, _)
DescendLoop(dirs_path1, dirs_path2, i) ==
    IF i = Len(dirs_path2) THEN <<>>
    ELSE IF Len(dirs_path1) > i /\ dirs_path1[i + 1] = dirs_path2[i + 1]
    THEN DescendLoop(dirs_path1, dirs_path2, i + 1)
    ELSE dirs_path2[i + 1] \o DIR_SEP \o DescendLoop(dirs_path1, dirs_path2, i + 1)

FileSuffixDropped(path2_is_file, file_name) == <<>>

\* Line 125.
FileSuffix(path2_is_file, file_name) ==
    IF path2_is_file THEN file_name ELSE <<>>

\* p1, p2: the arguments; f1: what isFile(path1) answers; g: what a read
\* outside dirs_path2 yields.
getRelativePath(p1, p2, f1, g) ==
    IF ~isAbsolutePath(p1) \/ ~isAbsolutePath(p2)
    THEN [status |-> "ok", path |-> <<>>]
    ELSE LET path2_is_file == <<Back(p2)>> # DIR_SEP
             s1 == split(p1)
             s2 == split(p2)
             e1 == EraseEmptyRev(s1, Len(s1))
             e2 == EraseEmptyRev(s2, Len(s2))
         IN  IF (f1 /\ e1 = <<>>) \/ (path2_is_file /\ e2 = <<>>)
             THEN [status |-> "oob", path |-> NoString]
             ELSE LET dirs_path1 == IF f1 THEN pop_back(e1) ELSE e1
                      file_name == IF path2_is_file THEN Back(e2) ELSE <<>>
                      dirs_path2 == IF path2_is_file THEN pop_back(e2) ELSE e2
                      body == IF Len(dirs_path1) >= Len(dirs_path2)
                              THEN ClimbLoop(dirs_path1, dirs_path2, 0, g)
                              ELSE [oob |-> FALSE,
                                    path |-> DescendLoop(dirs_path1, dirs_path2, 0)]
                  IN  [status |-> IF body.oob THEN "oob" ELSE "ok",
                       path |-> body.path \o FileSuffix(path2_is_file, file_name)]

(***************************************************************************)
(* FileSystem::isRemoteAddress.                                            *)
(***************************************************************************)
\* isalnum() on the characters the addresses are built from.
Alnum == {"f", "i", "l", "e", "x", "h", "t", "p", "1"}

NUL == "\\0"

\* The character at position i (1-based) of the buffer of s: the string's
\* own characters, its terminator, and behind it whatever junk holds.
CharAt(s, i, junk) ==
    IF i <= Len(s) THEN s[i]
    ELSE IF i = Len(s) + 1 THEN NUL
    ELSE junk

\* string(itr, itr + n) for itr at position i.
Range(s, i, n, junk) == [k \in 1..n |-> CharAt(s, i + k - 1, junk)]

SchemeAlwaysRemote(protocol) == TRUE

\* Line 289, left operand: the scheme collected so far is not "file".
SchemeIsRemote(protocol) == protocol # <<"f", "i", "l", "e">>

\* Lines 283-294: the scan from position i with the scheme collected so far.
RECURSIVE ScanLoop(_, _, _, _)
ScanLoop(s, i, protocol, junk) ==
    IF i > Len(s) THEN FALSE
    ELSE IF s[i] \in Alnum THEN ScanLoop(s, i + 1, Append(protocol, s[i]), junk)
    ELSE SchemeIsRemote(protocol) /\ Range(s, i, 3, junk) = <<":", "/", "/">>

isRemoteAddress(s, junk) ==
    IF Range(s, 1, 2, junk) = <<"/", "/">> THEN TRUE
    ELSE ScanLoop(s, 1, <<>>, junk)

(***************************************************************************)
(* The file system behind the OS calls: a directory or another entry is    *)
(* the sequence of names that leads to it from the root, <<>>.             *)
(***************************************************************************)
\* The entry a path names (the paths passed here hold names only).
Node(p) == SelectSeq(split(p), LAMBDA seg : seg # <<>>)

\* FileSystem::exists: access(path, F_OK).
exists(p, dirs, files) == Node(p) \in dirs \cup files

isDirAlways(p, dirs) == TRUE

\* FileSystem::isDir: stat() and S_ISDIR.
isDir(p, dirs) == Node(p) \in dirs

\* FileSystem::createDirectory: mkdir() succeeds when the system allows it,
\* the entry does not exist yet and its parent is a directory.
createDirectory(p, dirs, files, allowed) ==
    /\ allowed
    /\ Node(p) # <<>>
    /\ Node(p) \notin dirs \cup files
    /\ SubSeq(Node(p), 1, Len(Node(p)) - 1) \in dirs

(***************************************************************************)
(* FileSystem::createPath.                                                 *)
(***************************************************************************)
\* Lines 201-222 from the state (directories, itr, path) with the
\* directories dirs; budget is the number of mkdir() calls the system still
\* allows.  The result: the return value, fail_path (fp, unchanged unless
\* set) and the directories afterwards.
RECURSIVE CreateLoop(_, _, _, _, _, _, _)
CreateLoop(directories, itr, p, dirs, files, budget, fp) ==
    IF itr = Len(directories) + 1
    THEN [ret |-> TRUE, fail_path |-> fp, dirs |-> dirs]
    ELSE IF directories[itr] = <<>>
    THEN CreateLoop(Erase(directories, itr, itr + 1), (itr - 1) + 1, p,
                    dirs, files, budget, fp)
    ELSE LET q == p \o DIR_SEP \o directories[itr]
         IN  IF exists(q, dirs, files)
             THEN IF ~isDir(q, dirs)
                  THEN [ret |-> FALSE, fail_path |-> q, dirs |-> dirs]
                  ELSE CreateLoop(directories, itr + 1, q, dirs, files, budget, fp)
             ELSE IF ~createDirectory(q, dirs, files, budget > 0)
                  THEN [ret |-> FALSE, fail_path |-> q, dirs |-> dirs]
                  ELSE CreateLoop(directories, itr + 1, q,
                                  dirs \cup {Node(q)}, files, budget - 1, fp)

createPath(p, dirs, files, budget, fp) ==
    IF ~isAbsolutePath(p) THEN [ret |-> FALSE, fail_path |-> fp, dirs |-> dirs]
    ELSE IF split(p) = <<>> THEN [ret |-> TRUE, fail_path |-> fp, dirs |-> dirs]
    ELSE CreateLoop(split(p), 1, <<>>, dirs, files, budget, fp)

(***************************************************************************)
(* The functions that open handles: isEmptyDir, getDirectoryContents and   *)
(* copyFile.  Each is computed from what the OS answers and yields what it *)
(* returns together with the handles it opened and the handles it closed.  *)
(***************************************************************************)
BUFFER_LENGTH == 4096

\* FileSystem::isEmptyDir, lines 178-185 of the header: the loop with n
\* entries still to be read and the counter at cnt.
RECURSIVE EmptyDirLoop(_, _)
EmptyDirLoop(n, cnt) ==
    IF n = 0 THEN [ret |-> TRUE, closed |-> 0]
    ELSE IF cnt + 1 > 2 THEN [ret |-> FALSE, closed |-> 1]
    ELSE EmptyDirLoop(n - 1, cnt + 1)

\* opened: opendir() gave a handle; n: the entries readdir() delivers, "."
\* and ".." among them.  With no handle readdir(NULL) is undefined ("ub").
isEmptyDir(opened, n) ==
    IF opened
    THEN LET out == EmptyDirLoop(n, 0)
         IN  [ret |-> out.ret, opened |-> 1, closed |-> out.closed, ub |-> FALSE]
    ELSE [ret |-> TRUE, opened |-> 0, closed |-> 0, ub |-> TRUE]

\* FileSystem::getDirectoryContents, lines 139-145: the entries from the
\* i-th of listing on, without "." and "..", each behind p and a separator.
RECURSIVE ContentsLoop(_, _, _)
ContentsLoop(p, listing, i) ==
    IF i > Len(listing) THEN <<>>
    ELSE IF listing[i] # Dot /\ listing[i] # DotDot
    THEN <<p \o DIR_SEP \o listing[i]>> \o ContentsLoop(p, listing, i + 1)
    ELSE ContentsLoop(p, listing, i + 1)

\* With no handle readdir(NULL) and closedir(NULL) are undefined.
getDirectoryContents(p, opened, listing) ==
    IF opened
    THEN [entries |-> ContentsLoop(p, listing, 1), opened |-> 1, closed |-> 1,
          ub |-> FALSE]
    ELSE [entries |-> <<>>, opened |-> 0, closed |-> 0, ub |-> TRUE]

\* FileSystem::copyFile, lines 166-168: the bytes written for a source of
\* size bytes left.
RECURSIVE CopyLoop(_)
CopyLoop(size) ==
    LET cnt == IF size < BUFFER_LENGTH THEN size ELSE BUFFER_LENGTH
    IN  IF cnt = 0 THEN 0 ELSE cnt + CopyLoop(size - cnt)

\* from_ok, to_ok: fopen() gave a handle for the source, the destination;
\* with no destination handle fwrite and fclose on it are undefined.
copyFile(from_ok, to_ok, size) ==
    IF ~from_ok THEN [ret |-> FALSE, copied |-> 0, opened |-> 0, closed |-> 0,
                      ub |-> FALSE]
    ELSE IF to_ok
    THEN [ret |-> TRUE, copied |-> CopyLoop(size), opened |-> 2, closed |-> 2,
          ub |-> FALSE]
    ELSE [ret |-> TRUE, copied |-> 0, opened |-> 1, closed |-> 1, ub |-> TRUE]

(***************************************************************************)
(* The path algorithms as a program: one call of getRelativePath, or a     *)
(* call of getCleanPath followed by a second call on its result.           *)
(***************************************************************************)
\* What a corrupted segment container may be joined to.
GarbagePaths == {Join(segs) : segs \in SeqsUpTo(Tokens, MaxGarbageSegs)}

\* What a read outside dirs_path2 may yield.
GarbageSegs == {<<>>, <<"a">>}

\* The outcomes of a call of getCleanPath that computed out.
cleanOutcomes(out) ==
    IF out.status = "ok" THEN {[status |-> "ok", ret |-> out.path]}
    ELSE IF out.status = "hang" THEN {[status |-> "hang", ret |-> NoString]}
    ELSE {[status |-> "crash", ret |-> NoString]}
         \cup {[status |-> "garbage", ret |-> s] : s \in GarbagePaths}

\* The outcomes of a call of getRelativePath that computed out.
relOutcomes(out) ==
    IF out.status = "ok" THEN {[status |-> "ok", ret |-> out.path]}
    ELSE {[status |-> "crash", ret |-> NoString],
          [status |-> "garbage", ret |-> out.path]}

RelNames == {<<"a">>, <<"b">>}

RelTokens == {<<>>} \cup RelNames

\* The arguments of getRelativePath: absolute paths of at most MaxRelSegs
\* pieces behind the root, and a few paths that are not absolute.
RelPaths ==
    {DIR_SEP \o Join(segs) : segs \in SeqsUpTo(RelTokens, MaxRelSegs)}
    \cup {Join(segs) : segs \in SeqsUpTo(RelNames, 2)}

\* What isFile(p) may answer: stat() reports a regular file only for a path
\* that does not end in a separator.
isFileAnswers(p) ==
    IF isAbsolutePath(p) /\ <<Back(p)>> # DIR_SEP THEN BOOLEAN ELSE {FALSE}

PathsIdle ==
    /\ order = "RL"
    /\ path1 = <<>> /\ path2 = <<>> /\ file1 = FALSE
    /\ ret = NoString /\ status = "none"
    /\ ret2 = NoString /\ status2 = "none"

RemoteIdle == addr = <<>>

CreateIdle ==
    /\ fs_dirs = {<<>>} /\ fs_files = {} /\ fs_dirs0 = {<<>>}
    /\ fail_path = NoString

HandlesIdle ==
    /\ open_dirs = 0 /\ open_files = 0
    /\ entries = <<>> /\ copied = 0 /\ calls = 0

InitClean ==
    /\ op = "getCleanPath"
    /\ pc = "clean1"
    /\ order \in ArgOrders
    /\ path \in Paths
    /\ path1 = <<>> /\ path2 = <<>> /\ file1 = FALSE
    /\ ret = NoString /\ status = "none"
    /\ ret2 = NoString /\ status2 = "none"
    /\ bret = FALSE
    /\ RemoteIdle /\ CreateIdle /\ HandlesIdle

InitRel ==
    /\ op = "getRelativePath"
    /\ pc = "rel"
    /\ order = "RL"
    /\ path = <<>>
    /\ path1 \in RelPaths /\ path2 \in RelPaths
    /\ file1 \in isFileAnswers(path1)
    /\ ret = NoString /\ status = "none"
    /\ ret2 = NoString /\ status2 = "none"
    /\ bret = FALSE
    /\ RemoteIdle /\ CreateIdle /\ HandlesIdle

InitPaths == InitClean \/ InitRel

CleanFirst ==
    /\ pc = "clean1"
    /\ \E o \in cleanOutcomes(getCleanPath(path, order)) :
          /\ status' = o.status
          /\ ret' = o.ret
          /\ pc' = IF o.status = "ok" THEN "clean2" ELSE "done"
    /\ UNCHANGED <<op, order, path, path1, path2, file1, ret2, status2, bret>>
    /\ UNCHANGED <<remoteVars, createVars, handleVars>>

CleanSecond ==
    /\ pc = "clean2"
    /\ \E o \in cleanOutcomes(getCleanPath(ret, order)) :
          /\ status2' = o.status
          /\ ret2' = o.ret
          /\ pc' = "done"
    /\ UNCHANGED <<op, order, path, path1, path2, file1, ret, status, bret>>
    /\ UNCHANGED <<remoteVars, createVars, handleVars>>

Relative ==
    /\ pc = "rel"
    /\ \E g \in GarbageSegs :
          \E o \in relOutcomes(getRelativePath(path1, path2, file1, g)) :
             /\ status' = o.status
             /\ ret' = o.ret
             /\ pc' = "done"
    /\ UNCHANGED <<op, order, path, path1, path2, file1, ret2, status2, bret>>
    /\ UNCHANGED <<remoteVars, createVars, handleVars>>

NextPaths == CleanFirst \/ CleanSecond \/ Relative

SpecPaths == InitPaths /\ [][NextPaths]_vars

(***************************************************************************)
(* What the specification says of the path algorithms, stated without the  *)
(* operators above.                                                        *)
(***************************************************************************)
NonEmpty(seg) == seg # <<>>

\* The non-empty pieces of a path, root to leaf.
Segments(p) == SelectSeq(split(p), NonEmpty)

\* Stack resolution of the pieces of an absolute path, left to right: an
\* empty piece or "." is dropped, ".." pops the stack (or is dropped when
\* the stack is empty), anything else is pushed.
RECURSIVE StackResolve(_, _, _)
StackResolve(pieces, i, stack) ==
    IF i > Len(pieces) THEN stack
    ELSE IF pieces[i] = <<>> \/ pieces[i] = Dot
    THEN StackResolve(pieces, i + 1, stack)
    ELSE IF pieces[i] = DotDot
    THEN StackResolve(pieces, i + 1,
                      IF stack = <<>> THEN stack ELSE pop_back(stack))
    ELSE StackResolve(pieces, i + 1, Append(stack, pieces[i]))

Resolved(p) == StackResolve(split(p), 1, <<>>)

EndsInSep(s) == s # <<>> /\ <<Back(s)>> = DIR_SEP

\* s ends in a separator that no other separator precedes, or is the root.
EndsInOneSep(s) ==
    /\ EndsInSep(s)
    /\ Len(s) >= 2 => <<s[Len(s) - 1]>> # DIR_SEP

CleanReturned ==
    /\ op = "getCleanPath"
    /\ pc \in {"clean2", "done"}
    /\ isAbsolutePath(path)

\* C1: getCleanPath is idempotent on absolute paths: when the call on an
\* absolute path p and the call on its result have both returned, the
\* second result equals the first.
C1_Idempotent ==
    (CleanReturned /\ status = "ok" /\ status2 = "ok") => ret2 = ret

\* C2: getCleanPath resolves ".." like a stack: the call on an absolute path
\* returns the path whose segments are the stack resolution of its pieces,
\* a ".." with nothing before it being dropped.
C2_StackResolution ==
    CleanReturned => (status = "ok" /\ Segments(ret) = Resolved(path))

\* C3: for an absolute path ending in a separator the result ends in exactly
\* one separator, and it is the bare root when no segment survives.
C3_OneTrailingSep ==
    (CleanReturned /\ status = "ok" /\ EndsInSep(path))
        => /\ EndsInOneSep(ret)
           /\ Resolved(path) = <<>> => ret = DIR_SEP

\* The directory segments getRelativePath compares: those of from without
\* its last one when from is a regular file, those of to without its last
\* one when to does not end in a separator.
FromDirs == IF file1 THEN pop_back(Segments(path1)) ELSE Segments(path1)

ToIsFile == ~EndsInSep(path2)

ToDirs == IF ToIsFile THEN pop_back(Segments(path2)) ELSE Segments(path2)

ToFile == IF ToIsFile THEN Back(Segments(path2)) ELSE <<>>

Min(a, b) == IF a <= b THEN a ELSE b

\* The length of the longest common prefix of two segment sequences.
SharedPrefixLen(a, b) ==
    CHOOSE k \in 0..Min(Len(a), Len(b)) :
        /\ \A i \in 1..k : a[i] = b[i]
        /\ k = Min(Len(a), Len(b)) \/ a[k + 1] # b[k + 1]

RECURSIVE Climbs(_)
Climbs(n) == IF n <= 0 THEN <<>> ELSE DotDot \o DIR_SEP \o Climbs(n - 1)

\* The segments of dirs behind the first k, each with a trailing separator.
RECURSIVE DirsAfter(_, _)
DirsAfter(dirs, k) ==
    IF k >= Len(dirs) THEN <<>>
    ELSE dirs[k + 1] \o DIR_SEP \o DirsAfter(dirs, k + 1)

RelCalled ==
    /\ op = "getRelativePath"
    /\ pc = "done"

BothAbsolute == isAbsolutePath(path1) /\ isAbsolutePath(path2)

\* C4: with at least as many from segments as to segments and a divergence
\* at index k, the result is one "../" per from segment at index >= k, then
\* every to segment at index >= k (then the file name of to, if any).
C4_ClimbPerFromSegment ==
    LET k == SharedPrefixLen(FromDirs, ToDirs)
    IN  (RelCalled /\ BothAbsolute /\ Len(FromDirs) >= Len(ToDirs)
             /\ k < Len(FromDirs))
            => /\ status = "ok"
               /\ ret = Climbs(Len(FromDirs) - k) \o DirsAfter(ToDirs, k) \o ToFile

\* C5: with strictly more to segments than from segments the result is the
\* to segments behind the shared prefix, all of them and in order, with no
\* ".." (then the file name of to, if any).
C5_DescendBehindSharedPrefix ==
    LET k == SharedPrefixLen(FromDirs, ToDirs)
    IN  (RelCalled /\ BothAbsolute /\ Len(ToDirs) > Len(FromDirs))
            => /\ status = "ok"
               /\ ret = DirsAfter(ToDirs, k) \o ToFile

RelReturned == RelCalled /\ status \in {"ok", "garbage"}

\* C6 as stated: the empty string is returned exactly when from or to is
\* not absolute; two absolute paths never give it.
C6_EmptyExactlyWhenNotAbsolute ==
    RelReturned => (ret = <<>> <=> ~BothAbsolute)

\* C6 as amended: the empty string is returned whenever from or to is not
\* absolute, and for two absolute paths exactly when to ends in a separator
\* and from and to have the same directory segments.
C6_EmptyWhenNotAbsoluteOrSameDir ==
    RelReturned
        => (ret = <<>> <=> (~BothAbsolute \/ (~ToIsFile /\ FromDirs = ToDirs)))

\* Two absolute paths naming the same directory two levels down: the call
\* returned the empty string.
C6_Witness ==
    /\ RelReturned /\ BothAbsolute
    /\ Len(ToDirs) >= 2 /\ FromDirs = ToDirs /\ ~ToIsFile
    /\ ret = <<>>

\* C7: getCleanPath and getRelativePath never fail structurally: every call
\* returns a defined string, none erases or reads outside its container.
C7_NeverFailsStructurally ==
    /\ status \in {"none", "ok"}
    /\ status2 \in {"none", "ok"}

(***************************************************************************)
(* One call of isRemoteAddress.                                            *)
(***************************************************************************)
\* The leading runs the addresses start with.
Schemes ==
    {<<>>, <<"f", "i", "l", "e">>, <<"f", "i", "l">>,
     <<"f", "i", "l", "e", "x">>, <<"h", "t", "t", "p">>, <<"1">>}

TailChars == {":", "/", ".", "x"}

Addresses ==
    {scheme \o tail : scheme \in Schemes, tail \in SeqsUpTo(TailChars, MaxTail)}

\* What the memory behind a string's terminator may hold.
JunkChars == {NUL, ":", "/", "x"}

InitRemote ==
    /\ op = "isRemoteAddress"
    /\ pc = "remote"
    /\ addr \in Addresses
    /\ path = <<>>
    /\ bret = FALSE
    /\ PathsIdle /\ CreateIdle /\ HandlesIdle

Remote ==
    /\ pc = "remote"
    /\ \E junk \in JunkChars : bret' = isRemoteAddress(addr, junk)
    /\ pc' = "done"
    /\ UNCHANGED <<op, path, pathVars, remoteVars, createVars, handleVars>>

NextRemote == Remote

SpecRemote == InitRemote /\ [][NextRemote]_vars

\* s starts with t.
HasPrefix(s, t) == Len(s) >= Len(t) /\ SubSeq(s, 1, Len(t)) = t

\* The length of the leading run of alphanumeric characters of s.
RunLen(s) ==
    CHOOSE n \in 0..Len(s) :
        /\ \A i \in 1..n : s[i] \in Alnum
        /\ n = Len(s) \/ s[n + 1] \notin Alnum

\* Remote as the specification words it: "//" in front, or a leading
\* alphanumeric run other than "file" with "://" right behind it.
RemoteAsSpecified(s) ==
    \/ HasPrefix(s, <<"/", "/">>)
    \/ /\ SubSeq(s, 1, RunLen(s)) # <<"f", "i", "l", "e">>
       /\ HasPrefix(SubSeq(s, RunLen(s) + 1, Len(s)), <<":", "/", "/">>)

RemoteCalled == op = "isRemoteAddress" /\ pc = "done"

\* C8: isRemoteAddress(s) is true exactly when s begins with "//" or its
\* leading alphanumeric run, other than "file", is immediately followed by
\* "://"; a string beginning with "file://" or with a single "/" is never
\* remote.
C8_RemoteExactly ==
    RemoteCalled
        => /\ bret <=> RemoteAsSpecified(addr)
           /\ HasPrefix(addr, <<"f", "i", "l", "e", ":", "/", "/">>) => ~bret
           /\ (HasPrefix(addr, <<"/">>) /\ ~HasPrefix(addr, <<"/", "/">>)) => ~bret

\* A call on an address beginning with "http://x" answered true.
C8_Witness ==
    /\ RemoteCalled
    /\ HasPrefix(addr, <<"h", "t", "t", "p", ":", "/", "/", "x">>)
    /\ bret

(***************************************************************************)
(* One call of createPath on a file system that holds one chain of         *)
(* directories, ending in a directory or in a regular file.                *)
(***************************************************************************)
Prefixes(names) == {SubSeq(names, 1, k) : k \in 0..Len(names)}

CreatePaths ==
    {DIR_SEP \o Join(segs) : segs \in SeqsUpTo(RelTokens, MaxCreateSegs)}
    \cup {Join(segs) : segs \in SeqsUpTo(RelNames, 1)}

Chains == SeqsUpTo(RelNames, MaxChain)

InitCreate ==
    /\ op = "createPath"
    /\ pc = "create"
    /\ path \in CreatePaths
    /\ \E chain \in Chains : \E leaf \in {"dir", "file"} :
          /\ fs_dirs = IF leaf = "dir" \/ chain = <<>> THEN Prefixes(chain)
                       ELSE Prefixes(chain) \ {chain}
          /\ fs_files = IF leaf = "dir" \/ chain = <<>> THEN {} ELSE {chain}
    /\ fs_dirs0 = fs_dirs
    /\ fail_path = NoString
    /\ bret = FALSE
    /\ PathsIdle /\ RemoteIdle /\ HandlesIdle

CreatePath ==
    /\ pc = "create"
    /\ \E budget \in 0..MaxCreateSegs :
          LET out == createPath(path, fs_dirs, fs_files, budget, fail_path)
          IN  /\ bret' = out.ret
              /\ fail_path' = out.fail_path
              /\ fs_dirs' = out.dirs
    /\ pc' = "done"
    /\ UNCHANGED <<op, path, fs_files, fs_dirs0, pathVars, remoteVars, handleVars>>

NextCreate == CreatePath

SpecCreate == InitCreate /\ [][NextCreate]_vars

\* The path of the first k segments of path, root downward.
PrefixPath(k) == AppendDirs(SubSeq(Segments(path), 1, k), 1)

PrefixNode(k) == SubSeq(Segments(path), 1, k)

CreateCalled == op = "createPath" /\ pc = "done" /\ isAbsolutePath(path)

\* C9: createPath on an absolute path: when it returns false, fail_path is
\* the shortest prefix that is not a directory afterwards (it could not be
\* created, or it exists as something else), every shorter prefix is a
\* directory and nothing was created below it; when it returns true every
\* prefix is a directory.  Only missing prefixes were created, nothing else
\* changed.
C9_FailPathIsFirstFailure ==
    CreateCalled
        => LET n == Len(Segments(path))
           IN  /\ bret => \A k \in 0..n : PrefixNode(k) \in fs_dirs
               /\ ~bret =>
                    \E k \in 1..n :
                       /\ fail_path = PrefixPath(k)
                       /\ \A j \in 0..(k - 1) : PrefixNode(j) \in fs_dirs
                       /\ PrefixNode(k) \notin fs_dirs
                       /\ \A j \in k..n : PrefixNode(j) \notin fs_dirs \ fs_dirs0
               /\ fs_dirs0 \subseteq fs_dirs
               /\ fs_dirs \ fs_dirs0 \subseteq {PrefixNode(k) : k \in 1..n}

\* A call that created a directory and then failed below it.
C9_Witness ==
    /\ CreateCalled /\ ~bret
    /\ fs_dirs # fs_dirs0
    /\ fail_path # NoString

(***************************************************************************)
(* A program that calls isEmptyDir, getDirectoryContents and copyFile, at  *)
(* most MaxCalls times.  A call whose behaviour is undefined either ends   *)
(* the program or goes on as if the C library had refused the null handle. *)
(***************************************************************************)
\* The name of the i-th entry of a directory.
EntryName(i) == [j \in 1..i |-> "e"]

\* What readdir() delivers for a directory with k entries.
Listing(k) == <<Dot, DotDot>> \o [i \in 1..k |-> EntryName(i)]

FileSizes == {0, 1, BUFFER_LENGTH, BUFFER_LENGTH + 1}

TheDir == <<"/", "d">>

InitHandles ==
    /\ op = "none"
    /\ pc = "idle"
    /\ path = TheDir
    /\ bret = FALSE
    /\ PathsIdle /\ RemoteIdle /\ CreateIdle /\ HandlesIdle

IsEmptyDir ==
    /\ pc = "idle" /\ calls < MaxCalls
    /\ \E opened \in BOOLEAN, k \in 0..MaxEntries, crash \in BOOLEAN :
          LET out == isEmptyDir(opened, Len(Listing(k)))
          IN  /\ crash => out.ub
              /\ pc' = IF crash THEN "crashed" ELSE "idle"
              /\ bret' = out.ret
              /\ open_dirs' = open_dirs + out.opened - out.closed
    /\ op' = "isEmptyDir"
    /\ calls' = calls + 1
    /\ UNCHANGED <<path, open_files, entries, copied>>
    /\ UNCHANGED <<pathVars, remoteVars, createVars>>

GetDirectoryContents ==
    /\ pc = "idle" /\ calls < MaxCalls
    /\ \E opened \in BOOLEAN, k \in 0..MaxEntries, crash \in BOOLEAN :
          LET out == getDirectoryContents(path, opened, Listing(k))
          IN  /\ crash => out.ub
              /\ pc' = IF crash THEN "crashed" ELSE "idle"
              /\ entries' = out.entries
              /\ open_dirs' = open_dirs + out.opened - out.closed
    /\ op' = "getDirectoryContents"
    /\ calls' = calls + 1
    /\ UNCHANGED <<path, bret, open_files, copied>>
    /\ UNCHANGED <<pathVars, remoteVars, createVars>>

CopyFile ==
    /\ pc = "idle" /\ calls < MaxCalls
    /\ \E from_ok \in BOOLEAN, to_ok \in BOOLEAN, size \in FileSizes,
          crash \in BOOLEAN :
          LET out == copyFile(from_ok, to_ok, size)
          IN  /\ crash => out.ub
              /\ pc' = IF crash THEN "crashed" ELSE "idle"
              /\ bret' = out.ret
              /\ copied' = out.copied
              /\ open_files' = open_files + out.opened - out.closed
    /\ op' = "copyFile"
    /\ calls' = calls + 1
    /\ UNCHANGED <<path, open_dirs, entries>>
    /\ UNCHANGED <<pathVars, remoteVars, createVars>>

NextHandles == IsEmptyDir \/ GetDirectoryContents \/ CopyFile

SpecHandles == InitHandles /\ [][NextHandles]_vars

\* C10: every handle a call opens is closed before the call returns: between
\* calls no directory handle and no file handle is open.
C10_NoHandleLeftOpen ==
    pc = "idle" => (open_dirs = 0 /\ open_files = 0)

====
